---- MODULE Spec2Model ----
(***************************************************************************)
(* Model of the PDF splitting tool of src/PDFExcel.py (PDFSplitterApp).    *)
(*                                                                         *)
(* Text is modelled as sequences of Unicode code points and files as       *)
(* sequences of bytes, so that decoding, parsing and file-name cleaning    *)
(* are computed the way the program computes them.                         *)
(*                                                                         *)
(*   Spec      the application: the start button, start_split, split_pdf   *)
(*             and root.update()                                           *)
(*   ReadSpec  read_name_file and the name list of start_split applied to  *)
(*             names files written in each encoding of the fallback list   *)
(*   SanSpec   the file-name cleaning of split_pdf applied to every name   *)
(*             over SanAlphabet up to MaxNameLen                           *)
(***************************************************************************)
EXTENDS Integers, Sequences, FiniteSets, TLC

VARIABLES
    san_in,     \* SanSpec: the (name, i) pair to clean
    san_out,    \* SanSpec: [done, base]: the cleaned base name for san_in
    rd_in,      \* ReadSpec: [file, guess]: the names file to read and the
                \* answer of the encoding detection for it
    rd_out,     \* ReadSpec: [done, res, names]: what read_name_file
                \* returned and the name list taken from it
    stack,      \* the invocations of start_split in progress, innermost
                \* last: one is entered from the event loop, a further one
                \* from root.update() inside the one before it
    disk,       \* the files written so far: a set of [path, content]
    progress,   \* the progress bar: [value, maximum]
    started,    \* the number of times the start button has been pressed
    last        \* the invocation of start_split that returned last

sanVars == <<san_in, san_out>>
rdVars == <<rd_in, rd_out>>
jobVars == <<stack, disk, progress, started, last>>
vars == <<san_in, san_out, rd_in, rd_out, stack, disk, progress, started,
          last>>

(***************************************************************************)
(* Bounds of the model.                                                    *)
(***************************************************************************)
MaxNameLen == 3
MaxSanIndex == 10
MaxRows == 3
MaxJobs == 2

(***************************************************************************)
(* Characters.  A character is its code point.                             *)
(*   9 TAB  10 LF  32 SPACE  40 (  41 )  44 ,  45 -  46 .  47 /  63 ?      *)
(*   95 _  48-57 0-9  65-90 A-Z  97-122 a-z  233 e-acute  20013 zhong      *)
(*   65288 fullwidth (   65289 fullwidth )                                 *)
(***************************************************************************)

\* str.isspace() on the code points the model uses: TAB, LF, VT, FF, CR,
\* FS..US, SPACE, NEL, NBSP and IDEOGRAPHIC SPACE.
IsSpace(c) == c \in (9..13) \cup (28..32) \cup {133, 160, 12288}

\* The letters outside ASCII that the model's texts can hold, as classified
\* by str.isalnum(): A-tilde, e-acute and the ideographs U+4E2D (zhong) and
\* U+8305.
AlnumBeyondAscii == {195, 233, 20013, 33541}

\* str.isalnum()
IsAlnum(c) == \/ c \in 48..57
              \/ c \in 65..90
              \/ c \in 97..122
              \/ c \in AlnumBeyondAscii

\* The characters kept besides alphanumerics: ' ', '_', '-', '(', ')',
\* fullwidth '(' and fullwidth ')'.
KeptPunctuation == {32, 95, 45, 40, 41, 65288, 65289}

KeepChar(c) == IsAlnum(c) \/ c \in KeptPunctuation

\* str.strip(): drop leading, then trailing, whitespace.
RECURSIVE LStrip(_)
LStrip(s) == IF s # <<>> /\ IsSpace(Head(s)) THEN LStrip(Tail(s)) ELSE s

RECURSIVE RStrip(_)
RStrip(s) == IF s # <<>> /\ IsSpace(s[Len(s)])
             THEN RStrip(SubSeq(s, 1, Len(s) - 1))
             ELSE s

Strip(s) == RStrip(LStrip(s))

\* str(n) for a natural number n: its decimal digits.
RECURSIVE Decimal(_)
Decimal(n) == IF n < 10 THEN <<48 + n>>
              ELSE Decimal(n \div 10) \o <<48 + (n % 10)>>

\* "page_"
PagePrefix == <<112, 97, 103, 101, 95>>

\* ".pdf"
PdfSuffix == <<46, 112, 100, 102>>

\* The cleaning without its fallback: an empty base name is returned as it is.
SafeNameNoFallback(name, i) == SelectSeq(Strip(name), KeepChar)

\* safe_name of split_pdf for the name at 0-based position i:
\*   "".join(c for c in str(name).strip() if c.isalnum() or c in (...))
\*       or f"page_{i+1}"
SafeName(name, i) ==
    LET kept == SelectSeq(Strip(name), KeepChar)
    IN  IF kept # <<>> THEN kept ELSE PagePrefix \o Decimal(i + 1)

(***************************************************************************)
(* Bytes and encodings.  A byte is a number in 0..255; a decoder returns   *)
(* [ok, text], ok = FALSE standing for UnicodeDecodeError.                 *)
(***************************************************************************)
Decoded(text) == [ok |-> TRUE, text |-> text]
DecodeError == [ok |-> FALSE, text |-> <<>>]

\* c followed by the decoding r of the rest.
Then(c, r) == IF r.ok THEN Decoded(<<c>> \o r.text) ELSE r

Drop(s, k) == SubSeq(s, k + 1, Len(s))

\* The 'ascii' codec.
AsciiDecode(bs) ==
    IF \A k \in 1..Len(bs) : bs[k] < 128 THEN Decoded(bs) ELSE DecodeError

\* The 'latin1' codec: every byte is the character of that code point.
Latin1Decode(bs) == Decoded(bs)

\* The 'utf-8' codec (strict): shortest forms only, no surrogates.
RECURSIVE Utf8Decode(_)
Utf8Decode(bs) ==
    IF bs = <<>> THEN Decoded(<<>>)
    ELSE
    LET b == bs[1]
        Cont(k) == k <= Len(bs) /\ bs[k] \in 128..191
    IN  IF b < 128 THEN Then(b, Utf8Decode(Drop(bs, 1)))
        ELSE IF b \in 194..223 /\ Cont(2)
        THEN Then((b - 192) * 64 + (bs[2] - 128), Utf8Decode(Drop(bs, 2)))
        ELSE IF /\ b \in 224..239 /\ Cont(2) /\ Cont(3)
                /\ (b = 224 => bs[2] >= 160)
                /\ (b = 237 => bs[2] <= 159)
        THEN Then((b - 224) * 4096 + (bs[2] - 128) * 64 + (bs[3] - 128),
                  Utf8Decode(Drop(bs, 3)))
        ELSE IF /\ b \in 240..244 /\ Cont(2) /\ Cont(3) /\ Cont(4)
                /\ (b = 240 => bs[2] >= 144)
                /\ (b = 244 => bs[2] <= 143)
        THEN Then((b - 240) * 262144 + (bs[2] - 128) * 4096
                      + (bs[3] - 128) * 64 + (bs[4] - 128),
                  Utf8Decode(Drop(bs, 4)))
        ELSE DecodeError

\* The 'utf-16' codec: a byte order mark chooses the byte order and is
\* dropped, little-endian without one; an odd length or a lone surrogate
\* is an error.
RECURSIVE Utf16Units(_, _)
Utf16Units(bs, bigEndian) ==
    IF bs = <<>> THEN <<>>
    ELSE <<IF bigEndian THEN bs[1] * 256 + bs[2] ELSE bs[1] + 256 * bs[2]>>
             \o Utf16Units(Drop(bs, 2), bigEndian)

RECURSIVE Utf16Chars(_)
Utf16Chars(us) ==
    IF us = <<>> THEN Decoded(<<>>)
    ELSE IF us[1] \in 55296..56319
    THEN IF Len(us) >= 2 /\ us[2] \in 56320..57343
         THEN Then(65536 + (us[1] - 55296) * 1024 + (us[2] - 56320),
                   Utf16Chars(Drop(us, 2)))
         ELSE DecodeError
    ELSE IF us[1] \in 56320..57343 THEN DecodeError
    ELSE Then(us[1], Utf16Chars(Drop(us, 1)))

Utf16Decode(bs) ==
    LET little == Len(bs) >= 2 /\ bs[1] = 255 /\ bs[2] = 254
        big == Len(bs) >= 2 /\ bs[1] = 254 /\ bs[2] = 255
        body == IF little \/ big THEN Drop(bs, 2) ELSE bs
    IN  IF Len(body) % 2 = 1 THEN DecodeError
        ELSE Utf16Chars(Utf16Units(body, big))

\* The two-byte characters of GBK / GB18030 that occur in the model's files:
\* A8A6 e-acute, C3A9 U+8305, D6D0 zhong, E4B8 U+6D93, E88C U+947C.  Every
\* other lead/trail pair that a decoder meets in these files is unassigned.
GbPairs == (<<168, 166>> :> 233) @@ (<<195, 169>> :> 33541)
           @@ (<<214, 208>> :> 20013) @@ (<<228, 184>> :> 28051)
           @@ (<<232, 140>> :> 38012)

\* The 'gbk' and 'gb18030' codecs: a byte below 0x80 is itself, a lead byte
\* 0x81..0xFE takes a trail byte.  GB18030 reads a lead byte followed by a
\* digit as the start of a four-byte character; the model's files hold none,
\* so only 81 30 81 30 (U+0080) is tabulated.
RECURSIVE GbDecode(_, _)
GbDecode(bs, fourByte) ==
    IF bs = <<>> THEN Decoded(<<>>)
    ELSE
    LET b == bs[1]
    IN  IF b < 128 THEN Then(b, GbDecode(Drop(bs, 1), fourByte))
        ELSE IF b \notin 129..254 \/ Len(bs) < 2 THEN DecodeError
        ELSE IF fourByte /\ bs[2] \in 48..57
        THEN IF Len(bs) >= 4 /\ SubSeq(bs, 1, 4) = <<129, 48, 129, 48>>
             THEN Then(128, GbDecode(Drop(bs, 4), fourByte))
             ELSE DecodeError
        ELSE IF <<b, bs[2]>> \in DOMAIN GbPairs
        THEN Then(GbPairs[<<b, bs[2]>>], GbDecode(Drop(bs, 2), fourByte))
        ELSE DecodeError

\* open(path, encoding=enc).read(): the guess None makes pandas use utf-8.
Decode(enc, bs) ==
    CASE enc = "ascii"   -> AsciiDecode(bs)
      [] enc = "none"    -> Utf8Decode(bs)
      [] enc = "utf-8"   -> Utf8Decode(bs)
      [] enc = "gb18030" -> GbDecode(bs, TRUE)
      [] enc = "gbk"     -> GbDecode(bs, FALSE)
      [] enc = "utf-16"  -> Utf16Decode(bs)
      [] enc = "latin1"  -> Latin1Decode(bs)

(***************************************************************************)
(* pandas: read_csv and read_excel with their default arguments, and the   *)
(* text of the first column.                                               *)
(***************************************************************************)
\* s cut at every occurrence of sep.
RECURSIVE SplitOn(_, _)
SplitOn(s, sep) ==
    IF \A k \in 1..Len(s) : s[k] # sep THEN <<s>>
    ELSE LET k == CHOOSE j \in 1..Len(s) :
                      s[j] = sep /\ \A m \in 1..(j - 1) : s[m] # sep
         IN  <<SubSeq(s, 1, k - 1)>> \o SplitOn(Drop(s, k), sep)

NonEmpty(s) == s # <<>>

Max(a, b) == IF a >= b THEN a ELSE b

\* row with empty fields added up to width w.
Pad(row, w) == [j \in 1..w |-> IF j <= Len(row) THEN row[j] ELSE <<>>]

NoFrame == [columns |-> <<>>, rows |-> <<>>, infer |-> FALSE]

\* The lines of a text that hold something, each cut into its fields.
CsvFields(text) ==
    LET lines == SelectSeq(SplitOn(text, 10), NonEmpty)
    IN  [k \in 1..Len(lines) |-> SplitOn(lines[k], 44)]

\* A reading that takes the first line for data (header=None).
ParseCsvNoHeader(text) ==
    LET fields == CsvFields(text)
    IN  IF fields = <<>> THEN [err |-> "EmptyDataError", df |-> NoFrame]
        ELSE [err |-> "",
              df |-> [columns |-> <<<<48>>>>, rows |-> fields, infer |-> TRUE]]

\* pd.read_csv(text): blank lines are skipped; the first line is the header
\* (header='infer'); the table is as wide as the wider of the header and the
\* first data line, a later line with more fields is a ParserError and a
\* shorter one is padded; fields in excess of the header are index columns
\* and not part of the frame.  A text without any line is an EmptyDataError.
ParseCsv(text) ==
    LET fields == CsvFields(text)
        n == Len(fields)
        w == IF n >= 2 THEN Max(Len(fields[1]), Len(fields[2]))
             ELSE Len(fields[1])
        lead == w - Len(fields[1])
    IN  IF n = 0 THEN [err |-> "EmptyDataError", df |-> NoFrame]
        ELSE IF \E k \in 3..n : Len(fields[k]) > w
        THEN [err |-> "ParserError", df |-> NoFrame]
        ELSE [err |-> "",
              df |-> [columns |-> fields[1],
                      rows |-> [k \in 1..(n - 1) |->
                                   Drop(Pad(fields[k + 1], w), lead)],
                      infer |-> TRUE]]

\* pd.read_excel(sheet): the first row of the sheet is the header; the
\* cells of the model's sheets are text cells.
ParseSheet(sheet) ==
    IF sheet.rows = <<>> THEN NoFrame
    ELSE [columns |-> sheet.rows[1],
          rows |-> Tail(sheet.rows),
          infer |-> FALSE]

\* df.empty
FrameEmpty(df) == df.rows = <<>> \/ df.columns = <<>>

\* Fields that read_csv takes for a missing value, among them the empty
\* field: "", "NA", "N/A", "NULL", "NaN", "n/a", "nan", "null".
NaStrings == {<<>>, <<78, 65>>, <<78, 47, 65>>, <<78, 85, 76, 76>>,
              <<78, 97, 78>>, <<110, 47, 97>>, <<110, 97, 110>>,
              <<110, 117, 108, 108>>}

IsIntText(v) == v # <<>> /\ \A k \in 1..Len(v) : v[k] \in 48..57

RECURSIVE IntValue(_)
IntValue(v) == IF v = <<>> THEN 0
               ELSE 10 * IntValue(SubSeq(v, 1, Len(v) - 1)) + (v[Len(v)] - 48)

\* "nan"
NanText == <<110, 97, 110>>

\* df.iloc[:, 0].astype(str).tolist(): the first column as text.  read_csv
\* has typed the column: all integers -> int64, integers and missing values
\* (or missing values only) -> float64, anything else -> object.
FirstColumnText(df) ==
    LET col == [k \in 1..Len(df.rows) |-> df.rows[k][1]]
        missing == {k \in 1..Len(col) : col[k] \in NaStrings}
        present == (1..Len(col)) \ missing
        numeric == df.infer /\ \A k \in present : IsIntText(col[k])
    IN  [k \in 1..Len(col) |->
            IF k \in missing THEN NanText
            ELSE IF ~numeric THEN col[k]
            ELSE IF missing = {} THEN Decimal(IntValue(col[k]))
            ELSE Decimal(IntValue(col[k])) \o <<46, 48>>]

(***************************************************************************)
(* read_name_file                                                          *)
(***************************************************************************)
\* str.lower() on the letters A-Z.
Lower(s) == [k \in 1..Len(s) |-> IF s[k] \in 65..90 THEN s[k] + 32 ELSE s[k]]

\* str.endswith
EndsWith(s, suffix) ==
    /\ Len(s) >= Len(suffix)
    /\ SubSeq(s, Len(s) - Len(suffix) + 1, Len(s)) = suffix

\* ".csv", ".xls", ".xlsx"
CsvSuffix == <<46, 99, 115, 118>>
XlsSuffix == <<46, 120, 108, 115>>
XlsxSuffix == <<46, 120, 108, 115, 120>>

\* encodings_to_try after the detected one.
FallbackEncodings == <<"gb18030", "gbk", "utf-8", "utf-16", "latin1">>

\* detect_file_encoding: what chardet.detect may answer.  Nothing for an
\* empty file, UTF-16 for a byte order mark, ascii for bytes below 0x80;
\* otherwise the guess rests on statistics and may be any of these.
Detect(bs) ==
    IF bs = <<>> THEN {"none"}
    ELSE IF Len(bs) >= 2 /\ <<bs[1], bs[2]>> \in {<<255, 254>>, <<254, 255>>}
    THEN {"utf-16"}
    ELSE IF \A k \in 1..Len(bs) : bs[k] < 128 THEN {"ascii"}
    ELSE {"none", "utf-8", "gb18030", "latin1"}

NoResult == [err |-> "", df |-> NoFrame, tried |-> <<>>, used |-> ""]

\* A loop that gives up at the first decoding error instead of going on.
TryFirstOnly(bs, cands, tried) ==
    LET d == Decode(Head(cands), bs)
        p == ParseCsv(d.text)
    IN  IF d.ok /\ p.err = ""
        THEN [err |-> "", df |-> p.df, tried |-> <<Head(cands)>>,
              used |-> Head(cands)]
        ELSE [err |-> "exhausted", df |-> NoFrame, tried |-> <<Head(cands)>>,
              used |-> ""]

\* A loop that goes on to the next candidate after any error.
RECURSIVE TryPastAnyError(_, _, _)
TryPastAnyError(bs, cands, tried) ==
    IF cands = <<>>
    THEN [err |-> "exhausted", df |-> NoFrame, tried |-> tried, used |-> ""]
    ELSE
    LET enc == Head(cands)
        d == Decode(enc, bs)
        p == ParseCsv(d.text)
    IN  IF ~d.ok \/ p.err # ""
        THEN TryPastAnyError(bs, Tail(cands), Append(tried, enc))
        ELSE [err |-> "", df |-> p.df,
              tried |-> Append(tried, enc), used |-> enc]

\* The for loop over encodings_to_try: the candidates tried so far are in
\* tried.  A decoding error goes on to the next candidate, any other error
\* leaves the loop, a frame is returned at once.
RECURSIVE TryEncodings(_, _, _)
TryEncodings(bs, cands, tried) ==
    IF cands = <<>>
    THEN [err |-> "exhausted", df |-> NoFrame, tried |-> tried, used |-> ""]
    ELSE
    LET enc == Head(cands)
        d == Decode(enc, bs)
        p == ParseCsv(d.text)
    IN  IF ~d.ok THEN TryEncodings(bs, Tail(cands), Append(tried, enc))
        ELSE IF p.err # ""
        THEN [err |-> p.err, df |-> NoFrame,
              tried |-> Append(tried, enc), used |-> ""]
        ELSE [err |-> "", df |-> p.df,
              tried |-> Append(tried, enc), used |-> enc]

\* read_name_file(file_path) for the file found at file_path, guess being
\* the answer of detect_file_encoding.  err is "" when a frame is returned,
\* "NamesNotFound" for FileNotFoundError, "ExcelFailed" for the ValueError of
\* a failed read_excel and "CannotRead" for the final ValueError.
ReadNameFile(file, guess) ==
    LET low == Lower(file.path)
        csv == IF EndsWith(low, CsvSuffix)
               THEN TryEncodings(file.bytes, <<guess>> \o FallbackEncodings,
                                 <<>>)
               ELSE [NoResult EXCEPT !.err = "skipped"]
    IN  IF ~file.exists THEN [NoResult EXCEPT !.err = "NamesNotFound"]
        ELSE IF csv.err = "" THEN csv
        ELSE IF EndsWith(low, XlsSuffix) \/ EndsWith(low, XlsxSuffix)
        THEN IF file.sheet.corrupt
             THEN [NoResult EXCEPT !.err = "ExcelFailed"]
             ELSE [NoResult EXCEPT !.df = ParseSheet(file.sheet)]
        ELSE [NoResult EXCEPT !.err = "CannotRead", !.tried = csv.tried]

(***************************************************************************)
(* Files.  A names file is [path, exists, bytes, sheet, written]: bytes is *)
(* the content of a delimited-text file, sheet that of a spreadsheet, and  *)
(* written records the table and the encoding it was saved with.           *)
(***************************************************************************)
\* str.encode for one character; <<>> when enc cannot express it.
EncodeChar(enc, c) ==
    CASE enc = "utf-8" ->
            IF c < 128 THEN <<c>>
            ELSE IF c < 2048 THEN <<192 + (c \div 64), 128 + (c % 64)>>
            ELSE <<224 + (c \div 4096), 128 + ((c \div 64) % 64),
                   128 + (c % 64)>>
      [] enc = "latin1" -> IF c < 256 THEN <<c>> ELSE <<>>
      [] enc \in {"gbk", "gb18030"} ->
            IF c < 128 THEN <<c>>
            ELSE IF \E q \in DOMAIN GbPairs : GbPairs[q] = c
            THEN CHOOSE q \in DOMAIN GbPairs : GbPairs[q] = c
            ELSE <<>>
      [] enc = "utf-16" -> <<c % 256, c \div 256>>

CanEncode(enc, text) ==
    \A k \in 1..Len(text) : EncodeChar(enc, text[k]) # <<>>

RECURSIVE EncodeChars(_, _)
EncodeChars(enc, text) ==
    IF text = <<>> THEN <<>>
    ELSE EncodeChar(enc, Head(text)) \o EncodeChars(enc, Tail(text))

\* The bytes of text saved as enc; UTF-16 starts with the byte order mark.
Encode(enc, text) ==
    (IF enc = "utf-16" THEN <<255, 254>> ELSE <<>>) \o EncodeChars(enc, text)

RECURSIVE JoinFields(_)
JoinFields(row) ==
    IF Len(row) = 1 THEN row[1]
    ELSE row[1] \o <<44>> \o JoinFields(Tail(row))

\* The text of a table: one line per row, fields separated by commas.
RECURSIVE TableText(_)
TableText(rows) ==
    IF rows = <<>> THEN <<>>
    ELSE JoinFields(Head(rows)) \o <<10>> \o TableText(Tail(rows))

NoSheet == [corrupt |-> FALSE, rows |-> <<>>]

CsvFile(path, rows, enc) ==
    [path |-> path, exists |-> TRUE,
     bytes |-> Encode(enc, TableText(rows)), sheet |-> NoSheet,
     written |-> [enc |-> enc, rows |-> rows]]

SheetFile(path, rows, corrupt) ==
    [path |-> path, exists |-> TRUE, bytes |-> <<>>,
     sheet |-> [corrupt |-> corrupt, rows |-> rows],
     written |-> [enc |-> "sheet", rows |-> rows]]

MissingFile(path) ==
    [path |-> path, exists |-> FALSE, bytes |-> <<>>, sheet |-> NoSheet,
     written |-> [enc |-> "", rows |-> <<>>]]

(***************************************************************************)
(* The names files on disk that a job can be pointed at.                   *)
(***************************************************************************)
\* "Name", "Invoice A", "Invoice B"
TextName == <<78, 97, 109, 101>>
InvoiceA == <<73, 110, 118, 111, 105, 99, 101, 32, 65>>
InvoiceB == <<73, 110, 118, 111, 105, 99, 101, 32, 66>>

\* i.csv: a header line and the names Invoice A, Invoice B, Invoice B.
InvoiceCsv == CsvFile(<<105, 46, 99, 115, 118>>,
                      <<<<TextName>>, <<InvoiceA>>, <<InvoiceB>>,
                        <<InvoiceB>>>>, "utf-8")

\* w.csv, saved as UTF-8: a header line and the names "a/b", "??" and
\* " e-acute ".
WeirdCsv == CsvFile(<<119, 46, 99, 115, 118>>,
                    <<<<TextName>>, <<<<97, 47, 98>>>>, <<<<63, 63>>>>,
                      <<<<32, 233, 32>>>>>>, "utf-8")

\* o.csv: a header line and the one name Invoice A.
OneCsv == CsvFile(<<111, 46, 99, 115, 118>>,
                  <<<<TextName>>, <<InvoiceA>>>>, "utf-8")

\* e.csv: one line only.
HeaderOnlyCsv == CsvFile(<<101, 46, 99, 115, 118>>, <<<<TextName>>>>, "utf-8")

\* b.csv: the third line has more fields than the lines before it.
RaggedCsv == CsvFile(<<98, 46, 99, 115, 118>>,
                     <<<<TextName>>, <<InvoiceA>>, <<InvoiceB, <<49>>>>>>,
                     "utf-8")

\* z.csv: a file of zero bytes.
ZeroCsv == CsvFile(<<122, 46, 99, 115, 118>>, <<>>, "utf-8")

\* t.xlsx: a sheet of two columns, a header row and two names.
TwoSheet == SheetFile(<<116, 46, 120, 108, 115, 120>>,
                      <<<<TextName, <<78>>>>, <<InvoiceA, <<49>>>>,
                        <<InvoiceB, <<50>>>>>>, FALSE)

\* K.XLS: a spreadsheet that read_excel cannot read.
BrokenSheet == SheetFile(<<75, 46, 88, 76, 83>>, <<>>, TRUE)

\* n.txt: neither delimited text nor a spreadsheet by its extension.
OtherFile == [CsvFile(<<110, 46, 116, 120, 116>>,
                      <<<<TextName>>, <<InvoiceA>>>>, "utf-8")
                 EXCEPT !.written.enc = "other"]

NamesStore == {InvoiceCsv, WeirdCsv, OneCsv, HeaderOnlyCsv, RaggedCsv,
               ZeroCsv, TwoSheet, BrokenSheet, OtherFile}

\* The file at path: a path that names none of them does not exist.
NamesFileAt(path) ==
    IF \E f \in NamesStore : f.path = path
    THEN CHOOSE f \in NamesStore : f.path = path
    ELSE MissingFile(path)

\* m.csv is not on disk.
MissingCsvPath == <<109, 46, 99, 115, 118>>

\* A new ttk.Progressbar.
NewProgress == [value |-> 0, maximum |-> 100]

\* One invocation of start_split as it is entered: its position pc and its
\* local variables, and a record of what it does and meets: the steps it
\* takes, the files it writes (wrote), the bar as the window shows it inside
\* each root.update() (events), the disk and the bar as it found them
\* (before, bar), the paths other invocations write while it lasts
\* (foreign), and whether none has been entered from its root.update()
\* (calm).
NewFrame(id, pdf, out, csv, found, bar) ==
    [id |-> id, pc |-> "validate",
     pdf_path |-> pdf, output_folder |-> out, csv_path |-> csv,
     df |-> NoFrame, names |-> <<>>, pages |-> <<>>, total_pages |-> 0,
     i |-> 0,
     steps |-> <<>>, wrote |-> <<>>, events |-> <<>>,
     before |-> found, bar |-> bar, foreign |-> {}, calm |-> TRUE]

\* Before any invocation has returned.  Of one that has: the frame it left,
\* how it returned (outcome), the message box it showed (dialog) and what
\* that said (report), the disk before its last step and after it (at,
\* after), and the bar as it left it (barAfter).
NoJob == [frame |-> [NewFrame(0, <<>>, <<>>, <<>>, {}, NewProgress)
                        EXCEPT !.pc = ""],
          outcome |-> "", dialog |-> "", report |-> <<>>,
          at |-> {}, after |-> {}, barAfter |-> NewProgress]

(***************************************************************************)
(* ReadSpec: read_name_file and the name list of start_split, applied to   *)
(* every single-column table of up to MaxRows rows over CellPool, saved in *)
(* each encoding of the fallback list that can express it.                 *)
(***************************************************************************)
\* "a", e-acute, zhong, U+8305, "07", "NA"
CellPool == {<<97>>, <<233>>, <<20013>>, <<33541>>, <<48, 55>>, <<78, 65>>}

\* "n.csv"
GeneratedPath == <<110, 46, 99, 115, 118>>

GeneratedTables ==
    UNION {[1..r -> {<<c>> : c \in CellPool}] : r \in 1..MaxRows}

GeneratedFiles ==
    {CsvFile(GeneratedPath, t, FallbackEncodings[e]) :
        <<t, e>> \in {x \in GeneratedTables \X (1..Len(FallbackEncodings)) :
                        CanEncode(FallbackEncodings[x[2]], TableText(x[1]))}}

\* g.csv, saved as GBK: the third line has more fields than the lines
\* before it.
RaggedGbkCsv == CsvFile(<<103, 46, 99, 115, 118>>,
                        <<<<TextName>>, <<<<20013>>>>,
                          <<<<20013>>, <<49>>>>>>, "gbk")

ReadFiles ==
    GeneratedFiles \cup NamesStore
        \cup {RaggedGbkCsv, MissingFile(MissingCsvPath)}

\* ReadSpec starts with a file and a guess chosen, nothing read yet.
RdInIdle == [file |-> MissingFile(<<>>), guess |-> "none"]
RdOutStart == [done |-> FALSE, res |-> NoResult, names |-> <<>>]
SanInIdle == [name |-> <<>>, i |-> 0]
SanOutStart == [done |-> FALSE, base |-> <<>>]

ReadInit ==
    /\ rd_in \in UNION {[file : {f}, guess : Detect(f.bytes)] :
                           f \in ReadFiles}
    /\ rd_out = RdOutStart
    /\ san_in = SanInIdle
    /\ san_out = SanOutStart
    /\ stack = <<>>
    /\ disk = {}
    /\ progress = NewProgress
    /\ started = 0
    /\ last = NoJob

\* df = self.read_name_file(csv_path); names = df.iloc[:, 0]...tolist()
ReadNames ==
    /\ ~rd_out.done
    /\ LET res == ReadNameFile(rd_in.file, rd_in.guess)
       IN  rd_out' = [done |-> TRUE, res |-> res,
                      names |-> IF res.err = "" /\ ~FrameEmpty(res.df)
                                THEN FirstColumnText(res.df) ELSE <<>>]
    /\ UNCHANGED <<rd_in, sanVars, jobVars>>

(***************************************************************************)
(* The documents on disk and what the three entry fields can hold.         *)
(***************************************************************************)
\* "out"
OutDir == <<111, 117, 116>>

\* a.pdf (three pages), B.PDF (two pages), c.pdf (one page), x.pdf (not on
\* disk), a.txt, and "out/Invoice A.pdf" (one page), a document that lies
\* in the folder the output goes to
InvoicePdf == OutDir \o <<47>> \o InvoiceA \o PdfSuffix
CPdf == <<99, 46, 112, 100, 102>>
APdf == <<97, 46, 112, 100, 102>>
BPdf == <<66, 46, 80, 68, 70>>
XPdf == <<120, 46, 112, 100, 102>>
ATxt == <<97, 46, 116, 120, 116>>

\* os.path.exists(pdf_path)
PdfExists(path) == path \in {APdf, BPdf, CPdf, InvoicePdf, ATxt}

\* The pages of the documents as they are before anything is written.
PdfPages(path) ==
    IF path = APdf THEN <<"a1", "a2", "a3">>
    ELSE IF path = BPdf THEN <<"b1", "b2">>
    ELSE IF path = CPdf THEN <<"c1">>
    ELSE IF path = InvoicePdf THEN <<"d1">>
    ELSE <<>>


PdfEntries == {<<>>, APdf, BPdf, CPdf, InvoicePdf, XPdf, ATxt}
OutEntries == {<<>>, OutDir}
CsvEntries == {<<>>, MissingCsvPath} \cup {f.path : f \in NamesStore}

\* os.path.join(output_folder, file_name)
JoinPath(folder, name) ==
    IF folder # <<>> /\ folder[Len(folder)] = 47 THEN folder \o name
    ELSE folder \o <<47>> \o name

\* The document PdfWriter writes for one page, and what is left of a file
\* whose writing failed after it had been opened for writing.
OnePage(page) == [pages |-> <<page>>, complete |-> TRUE]
Truncated == [pages |-> <<>>, complete |-> FALSE]

\* The document found at path now: what was written there, if anything was.
DocumentNow(d, path) ==
    IF \E e \in d : e.path = path
    THEN (CHOOSE e \in d : e.path = path).content
    ELSE [pages |-> PdfPages(path), complete |-> TRUE]

\* open(path, 'wb') and write: the file is created or replaced.
WriteFile(d, path, content) ==
    {e \in d : e.path # path} \cup {[path |-> path, content |-> content]}

(***************************************************************************)
(* start_split and split_pdf, one action for each step of an invocation.   *)
(***************************************************************************)
Top == stack[Len(stack)]
Running == stack # <<>>
At(pc) == Running /\ Top.pc = pc

\* The top frame after the step it is at, continuing at pc.
Stepped(pc) ==
    [Top EXCEPT !.steps = Append(@, [pc |-> Top.pc, i |-> Top.i]),
                !.pc = pc]

\* The invocations under the top one, which has written the paths touched.
Below(touched) ==
    [k \in 1..(Len(stack) - 1) |->
        [stack[k] EXCEPT !.foreign = @ \cup touched]]

\* The paths on which two states of the disk differ.
Changed(d, e) == {x.path : x \in (d \ e) \cup (e \ d)}

\* The top invocation goes on as frame, leaving the disk and the bar so.
Continue(frame, diskAfter, barAfter) ==
    /\ stack' = Append(Below(Changed(disk, diskAfter)), frame)
    /\ disk' = diskAfter
    /\ progress' = barAfter
    /\ UNCHANGED <<started, last, sanVars, rdVars>>

\* The top invocation returns: outcome names how, dialog the message box it
\* showed ("showerror" or "showinfo").
Return(outcome, dialog, report, diskAfter, barAfter) ==
    /\ stack' = Below(Changed(disk, diskAfter))
    /\ last' = [frame |-> Stepped("returned"), outcome |-> outcome,
                dialog |-> dialog, report |-> report,
                at |-> disk, after |-> diskAfter, barAfter |-> barAfter]
    /\ disk' = diskAfter
    /\ progress' = barAfter
    /\ UNCHANGED <<started, sanVars, rdVars>>

\* The same, removing the files the invocation has written.
RaiseAndCleanUp(outcome, diskAfter) ==
    Return(outcome, "showerror", <<>>,
           {e \in diskAfter :
               \A k \in 1..Len(Top.wrote) : e.path # Top.wrote[k].path},
           [progress EXCEPT !.value = 0])

\* except Exception as e: showerror; self.progress['value'] = 0
Raise(outcome, diskAfter) ==
    Return(outcome, "showerror", <<>>, diskAfter,
           [progress EXCEPT !.value = 0])

\* The start button is pressed: start_split is entered with what the three
\* entries hold.  The button is served by the event loop, or by
\* root.update() within an invocation that is extracting.
StartSplit ==
    /\ started < MaxJobs
    /\ ~Running \/ At("update")
    /\ \E pdf \in PdfEntries, out \in OutEntries, csv \in CsvEntries :
          stack' = Append(IF Running
                          THEN [stack EXCEPT ![Len(stack)].calm = FALSE]
                          ELSE stack,
                          NewFrame(started + 1, pdf, out, csv, disk,
                                   progress))
    /\ started' = started + 1
    /\ UNCHANGED <<disk, progress, last, sanVars, rdVars>>

\* if not all([pdf_path, output_folder, csv_path])
ValidPaths(pdf, out, csv) ==
    /\ pdf # <<>>
    /\ out # <<>>
    /\ csv # <<>>
    /\ EndsWith(Lower(pdf), PdfSuffix)

\* The same without the test of the extension.
ValidateFieldsOnly ==
    /\ At("validate")
    /\ IF \/ Top.pdf_path = <<>> \/ Top.output_folder = <<>>
          \/ Top.csv_path = <<>>
       THEN Return("ValidationError", "showerror", <<>>, disk, progress)
       ELSE Continue(Stepped("read"), disk, progress)

\* if not all([...]): showerror, return;  if not pdf_path.lower()
\* .endswith('.pdf'): showerror, return
Validate ==
    /\ At("validate")
    /\ IF ~ValidPaths(Top.pdf_path, Top.output_folder, Top.csv_path)
       THEN Return("ValidationError", "showerror", <<>>, disk, progress)
       ELSE Continue(Stepped("read"), disk, progress)

\* df = self.read_name_file(csv_path)
ReadNameList ==
    /\ At("read")
    /\ LET file == NamesFileAt(Top.csv_path)
       IN  \E guess \in Detect(file.bytes) :
             LET res == ReadNameFile(file, guess)
             IN  IF res.err # ""
                 THEN Raise(res.err, disk)
                 ELSE Continue([Stepped("empty") EXCEPT !.df = res.df],
                               disk, progress)

\* The same, going on with an empty table.
EmptyCheckContinues ==
    /\ At("empty")
    /\ Continue([Stepped("open") EXCEPT !.names = FirstColumnText(Top.df)],
                disk, progress)

\* if df.empty: showerror and return;  names = df.iloc[:, 0]...tolist()
EmptyCheck ==
    /\ At("empty")
    /\ IF FrameEmpty(Top.df)
       THEN Return("EmptySource", "showerror", <<>>, disk, progress)
       ELSE Continue([Stepped("open") EXCEPT
                         !.names = FirstColumnText(Top.df)],
                     disk, progress)

\* split_pdf: if not os.path.exists(pdf_path): raise; open; PdfReader;
\* len(reader.pages).  Opening or parsing a document that exists may fail,
\* and fails for one that was left cut short.
OpenSource ==
    /\ At("open")
    /\ IF ~PdfExists(Top.pdf_path)
       THEN Raise("PdfNotFound", disk)
       ELSE LET now == DocumentNow(disk, Top.pdf_path)
            IN  \/ /\ now.complete
                   /\ Continue([Stepped("count") EXCEPT
                                   !.pages = now.pages,
                                   !.total_pages = Len(now.pages)],
                               disk, progress)
                \/ Raise("PdfUnreadable", disk)

\* The same, letting through a list shorter than the document.
CountCheckAtMost ==
    /\ At("count")
    /\ IF Len(Top.names) > Top.total_pages
       THEN Raise("CountMismatch", disk)
       ELSE Continue(Stepped("page"), disk,
                     [value |-> 0, maximum |-> Top.total_pages])

\* if len(names) != total_pages: raise;  progress maximum and value
CountCheck ==
    /\ At("count")
    /\ IF Len(Top.names) # Top.total_pages
       THEN Raise("CountMismatch", disk)
       ELSE Continue(Stepped("page"), disk,
                     [value |-> 0, maximum |-> Top.total_pages])

\* output_path of the turn i of the loop
OutputPath(frame, i) ==
    JoinPath(frame.output_folder,
             SafeName(frame.names[i + 1], i) \o PdfSuffix)

\* The same, writing the first page of the document in every turn.
ExtractFirstPage ==
    /\ At("page")
    /\ LET i == Top.i
           path == OutputPath(Top, i)
           page == Top.pages[1]
       IN  \/ Continue([Stepped("progress") EXCEPT
                           !.wrote = Append(@, [i |-> i, path |-> path,
                                                page |-> page])],
                       WriteFile(disk, path, OnePage(page)), progress)
           \/ Raise("OpenFailed", disk)
           \/ Raise("WriteFailed", WriteFile(disk, path, Truncated))

\* One turn of the loop up to the written file: safe_name, PdfWriter,
\* add_page, open(output_path, 'wb'), write.  The file may fail to open
\* (nothing is touched) or the writing may fail after it was opened (the
\* file is left cut short).
ExtractPage ==
    /\ At("page")
    /\ LET i == Top.i
           path == OutputPath(Top, i)
           page == Top.pages[i + 1]
       IN  \/ Continue([Stepped("progress") EXCEPT
                           !.wrote = Append(@, [i |-> i, path |-> path,
                                                page |-> page])],
                       WriteFile(disk, path, OnePage(page)), progress)
           \/ Raise("OpenFailed", disk)
           \/ Raise("WriteFailed", WriteFile(disk, path, Truncated))

\* self.progress['value'] = i + 1; self.root.update() is entered: the
\* window shows the bar, and pending events are served.
ShowProgress ==
    /\ At("progress")
    /\ Continue([Stepped("update") EXCEPT
                    !.events = Append(@, [value |-> Top.i + 1,
                                          maximum |-> progress.maximum,
                                          written |-> Len(Top.wrote)])],
                disk, [progress EXCEPT !.value = Top.i + 1])

\* root.update() returns: the loop goes on with the next name, or split_pdf
\* returns.
UpdateReturns ==
    /\ At("update")
    /\ Continue([Stepped(IF Top.i + 1 < Len(Top.names)
                         THEN "page" ELSE "report")
                    EXCEPT !.i = Top.i + 1],
                disk, progress)

\* The character U+65E0 that the completion message shows for no name.
NoName == <<26080>>

\* messagebox.showinfo: the page count, names[0] and names[-1].
Report ==
    /\ At("report")
    /\ Return("Done", "showinfo",
              <<Decimal(Len(Top.names)),
                IF Len(Top.names) > 0 THEN Top.names[1] ELSE NoName,
                IF Len(Top.names) > 1 THEN Top.names[Len(Top.names)]
                ELSE NoName>>,
              disk, progress)

Init ==
    /\ stack = <<>>
    /\ disk = {}
    /\ progress = NewProgress
    /\ started = 0
    /\ last = NoJob
    /\ san_in = SanInIdle
    /\ san_out = SanOutStart
    /\ rd_in = RdInIdle
    /\ rd_out = RdOutStart

Next ==
    \/ StartSplit
    \/ Validate
    \/ ReadNameList
    \/ EmptyCheck
    \/ OpenSource
    \/ CountCheck
    \/ ExtractPage
    \/ ShowProgress
    \/ UpdateReturns
    \/ Report

Spec == Init /\ [][Next]_vars

(***************************************************************************)
(* SanSpec: the cleaning applied to arbitrary names.                       *)
(***************************************************************************)
\* a, SPACE, TAB, /, ., ?, fullwidth (, zhong
SanAlphabet == {97, 32, 9, 47, 46, 63, 65288, 20013}

SeqsUpTo(S, n) == UNION {[1..k -> S] : k \in 0..n}

SanInit ==
    /\ san_in \in [name : SeqsUpTo(SanAlphabet, MaxNameLen),
                   i : 0..MaxSanIndex]
    /\ san_out = SanOutStart
    /\ rd_in = RdInIdle
    /\ rd_out = RdOutStart
    /\ stack = <<>>
    /\ disk = {}
    /\ progress = NewProgress
    /\ started = 0
    /\ last = NoJob

SanitizeName ==
    /\ ~san_out.done
    /\ san_out' = [done |-> TRUE, base |-> SafeName(san_in.name, san_in.i)]
    /\ UNCHANGED <<san_in, rdVars, jobVars>>

(***************************************************************************)
(* Specifications.  Each one runs its own part of the program and leaves   *)
(* the variables of the others at rest.                                    *)
(***************************************************************************)
SanNext == SanitizeName

SanSpec == SanInit /\ [][SanNext]_vars

ReadNext == ReadNames

ReadSpec == ReadInit /\ [][ReadNext]_vars

(***************************************************************************)
(* Properties of the cleaning (SanSpec).                                   *)
(***************************************************************************)
\* The positions of name that survive trimming and filtering, stated on
\* indices: those between the first and the last non-whitespace character
\* that hold a kept character.
SurvivingPositions(name) ==
    LET solid == {k \in 1..Len(name) : ~IsSpace(name[k])}
    IN  {k \in 1..Len(name) :
            /\ \E a \in solid : a <= k
            /\ \E b \in solid : k <= b
            /\ KeepChar(name[k])}

\* The characters of name at the positions of P, in order.
Pick(name, P) ==
    [j \in 1..Cardinality(P) |->
        name[CHOOSE k \in P : Cardinality({m \in P : m <= k}) = j]]

TrimmedAndFiltered(name) == Pick(name, SurvivingPositions(name))

HasKeptChar(name) == \E k \in 1..Len(name) : KeepChar(name[k])

\* Control characters and  " * / : < > ? \ |  cannot be used in a file name.
IllegalInFileName == (0..31) \cup {34, 42, 47, 58, 60, 62, 63, 92, 124}

LegalBaseName(base) ==
    /\ base # <<>>
    /\ \A k \in 1..Len(base) : base[k] \notin IllegalInFileName

\* C4 as stated: sanitize(name, i), i 1-based, is the trimmed and filtered
\* name, is non-empty and legal, and is page_<i> whenever name holds none of
\* the kept characters.  (A name whose only kept characters are surrounding
\* spaces has an empty trimmed and filtered form: the statement then asks for
\* an empty and a non-empty result at once.)
C4_AsStated ==
    san_out.done =>
        /\ HasKeptChar(san_in.name) =>
                san_out.base = TrimmedAndFiltered(san_in.name)
        /\ ~HasKeptChar(san_in.name) =>
                san_out.base = PagePrefix \o Decimal(san_in.i + 1)
        /\ LegalBaseName(san_out.base)

\* C4 amended: sanitize(name, i) is the trimmed and filtered name whenever
\* that is non-empty and page_<i> whenever it is empty (which covers every
\* name holding none of the kept characters, and also names such as " "
\* whose only kept characters are trimmed away); the result is always
\* non-empty and holds no character that is illegal in a file name.
C4_Sanitize ==
    san_out.done =>
        LET f == TrimmedAndFiltered(san_in.name)
            page == PagePrefix \o Decimal(san_in.i + 1)
        IN  /\ f # <<>> => san_out.base = f
            /\ f = <<>> => san_out.base = page
            /\ ~HasKeptChar(san_in.name) => san_out.base = page
            /\ LegalBaseName(san_out.base)

\* The name "??/" at 1-based position 10 has been cleaned to "page_10", and
\* so has, in another run, the name " " (a kept character, trimmed away).
C4_Witness ==
    /\ san_out.done
    /\ san_in.i = 9
    /\ san_in.name \in {<<63, 63, 47>>, <<32>>}
    /\ san_out.base = <<112, 97, 103, 101, 95, 49, 48>>

(***************************************************************************)
(* Properties of the reading (ReadSpec).                                   *)
(***************************************************************************)
RdRows == rd_in.file.written.rows
RdIsText == rd_in.file.written.enc \in {"gb18030", "gbk", "utf-8", "utf-16",
                                        "latin1"}
RdIsSheet == rd_in.file.written.enc = "sheet"

\* The text was decoded into what had been written (a sheet needs no
\* decoding).
RdFaithful ==
    \/ RdIsSheet
    \/ /\ RdIsText
       /\ Decode(rd_out.res.used, rd_in.file.bytes)
              = Decoded(TableText(RdRows))

\* A names table was read, and read as it was written.
RdTableRead == rd_out.done /\ rd_out.res.err = "" /\ RdFaithful

\* The first fields of the rows from(+1)..r of the written table.
RdFirstFields(from) ==
    [k \in 1..(Len(RdRows) - from) |-> RdRows[k + from][1]]

RunningFrames == {stack[k] : k \in 1..Len(stack)}

\* The invocation has taken the step pc.
Took(frame, pc) == \E k \in 1..Len(frame.steps) : frame.steps[k].pc = pc

Returned == last.outcome # ""

\* The pages of the source document of an invocation, as it read them.
SourcePages(frame) == frame.pages

\* C1: an invocation that has taken the count check goes on to extract
\* only if it has as many names as the document has pages, and returns with
\* CountMismatch exactly when it has not; one that returned with
\* CountMismatch has written no file, and the disk is as it found it.
C1_CountMismatch ==
    /\ \A f \in RunningFrames :
          Took(f, "count") => Len(f.names) = Len(SourcePages(f))
    /\ Took(last.frame, "count") =>
          /\ last.outcome = "CountMismatch"
                <=> Len(last.frame.names) # Len(SourcePages(last.frame))
          /\ last.outcome = "CountMismatch" =>
                /\ last.frame.wrote = <<>>
                /\ last.after = last.frame.before

\* Two names against the three pages of a.pdf, in a directory that already
\* holds files, have been refused.
C1_Witness ==
    /\ last.outcome = "CountMismatch"
    /\ Len(last.frame.names) = 2
    /\ Len(SourcePages(last.frame)) = 3
    /\ last.frame.before # {}
    /\ last.after = last.frame.before

\* The file at path holds content.
Holds(d, path, content) == [path |-> path, content |-> content] \in d

\* The indices of the pages, and the page of index i, of an invocation.
PageIndices(frame) == 0..(Len(SourcePages(frame)) - 1)
PageOf(frame, i) == SourcePages(frame)[i + 1]

\* The files an invocation has written.
PathsWritten(frame) == {frame.wrote[k].path : k \in 1..Len(frame.wrote)}

\* The cleaned names of an invocation.
BaseNames(frame) ==
    {SafeName(frame.names[i + 1], i) : i \in 0..(Len(frame.names) - 1)}

\* A name after that of index i is written to the same file.
ReplacedLater(frame, i) ==
    \E j \in PageIndices(frame) :
        j > i /\ OutputPath(frame, j) = OutputPath(frame, i)

\* C2 as stated: a completed invocation has produced as many files as the
\* document has pages, and the file for name i holds page i.
C2_AsStated ==
    last.outcome = "Done" =>
        /\ Cardinality(PathsWritten(last.frame))
              = Len(SourcePages(last.frame))
        /\ \A i \in PageIndices(last.frame) :
              Holds(last.after, OutputPath(last.frame, i),
                    OnePage(PageOf(last.frame, i)))

\* C2: a completed invocation has written once for every page, in the
\* order of the pages, page i alone to the file named by name i; the files
\* it has produced are as many as its distinct cleaned names; and when it
\* returns the file for name i holds page i, unless a later name of the
\* list is written to the same file or another invocation, entered from
\* root.update() of this one, has written that file.
C2_PagePerName ==
    last.outcome = "Done" =>
        LET f == last.frame
        IN  /\ Len(f.wrote) = Len(SourcePages(f))
            /\ \A i \in PageIndices(f) :
                  f.wrote[i + 1] = [i |-> i, path |-> OutputPath(f, i),
                                    page |-> PageOf(f, i)]
            /\ Cardinality(PathsWritten(f)) = Cardinality(BaseNames(f))
            /\ \A i \in PageIndices(f) :
                  \/ ReplacedLater(f, i)
                  \/ OutputPath(f, i) \in f.foreign
                  \/ Holds(last.after, OutputPath(f, i),
                           OnePage(PageOf(f, i)))

\* The three pages of a.pdf have been written under three names that are
\* cleaned to "ab", "page_2" and one more, and each file holds its page.
C2_Witness ==
    /\ last.outcome = "Done"
    /\ Len(SourcePages(last.frame)) = 3
    /\ Cardinality(PathsWritten(last.frame)) = 3
    /\ SafeName(last.frame.names[2], 1) = PagePrefix \o <<50>>
    /\ \A i \in PageIndices(last.frame) :
          Holds(last.after, OutputPath(last.frame, i),
                OnePage(PageOf(last.frame, i)))

\* Two names of the invocation are cleaned to the same base name.
Collides(frame) ==
    \E i, j \in PageIndices(frame) :
        i # j /\ OutputPath(frame, i) = OutputPath(frame, j)

\* C3 as stated: after a completed invocation with colliding names the
\* files written are those of the distinct cleaned names, and each of them
\* holds the page of the greatest index whose name is cleaned to it.
C3_AsStated ==
    (last.outcome = "Done" /\ Collides(last.frame)) =>
        LET f == last.frame
        IN  /\ PathsWritten(f)
                  = {JoinPath(f.output_folder, b \o PdfSuffix) :
                        b \in BaseNames(f)}
            /\ \A i \in PageIndices(f) :
                  ~ReplacedLater(f, i) =>
                      Holds(last.after, OutputPath(f, i),
                            OnePage(PageOf(f, i)))

\* The same of the invocations during which no other one wrote.
C3_Alone ==
    last.frame.foreign = {} => C3_AsStated

\* One of the three entries was empty, or the document path does not end
\* with .pdf in any case of the letters.
BadEntries(frame) ==
    \/ frame.pdf_path = <<>>
    \/ frame.output_folder = <<>>
    \/ frame.csv_path = <<>>
    \/ Len(frame.pdf_path) < 4
    \/ Lower(SubSeq(frame.pdf_path, Len(frame.pdf_path) - 3,
                    Len(frame.pdf_path))) # <<46, 112, 100, 102>>

\* C5: an invocation with a bad entry takes no step but the validation and
\* returns from it with ValidationError: it has read no names, opened no
\* document and written no file, and the disk and the progress bar are as
\* it found them.
C5_ValidationFirst ==
    /\ \A f \in RunningFrames :
          BadEntries(f) => f.pc = "validate" /\ f.steps = <<>>
    /\ (Returned /\ BadEntries(last.frame)) =>
          /\ last.outcome = "ValidationError"
          /\ last.frame.steps = <<[pc |-> "validate", i |-> 0]>>
          /\ last.frame.df = NoFrame
          /\ last.frame.names = <<>>
          /\ last.frame.total_pages = 0
          /\ last.frame.wrote = <<>>
          /\ last.frame.events = <<>>
          /\ last.at = last.frame.before
          /\ last.after = last.frame.before
          /\ last.barAfter = last.frame.bar

\* The document path a.txt, with the other entries filled and the names
\* file absent, has been refused while the directory held files and the bar
\* stood at the end of an earlier invocation.
C5_Witness ==
    /\ last.outcome = "ValidationError"
    /\ last.frame.pdf_path = ATxt
    /\ last.frame.output_folder # <<>>
    /\ last.frame.csv_path = MissingCsvPath
    /\ last.frame.before # {}
    /\ last.frame.bar.value > 0
    /\ last.barAfter = last.frame.bar
    /\ last.after = last.frame.before

\* The steps of an invocation with n names that meets no error.
RECURSIVE Turns(_, _)
Turns(i, n) ==
    IF i >= n THEN <<>>
    ELSE <<[pc |-> "page", i |-> i], [pc |-> "progress", i |-> i],
           [pc |-> "update", i |-> i]>> \o Turns(i + 1, n)

StepOrder(n) ==
    <<[pc |-> "validate", i |-> 0], [pc |-> "read", i |-> 0],
      [pc |-> "empty", i |-> 0], [pc |-> "open", i |-> 0],
      [pc |-> "count", i |-> 0]>>
    \o Turns(0, n) \o <<[pc |-> "report", i |-> n]>>

\* The steps taken are the first ones of the order.
InOrder(frame) ==
    LET order == StepOrder(Len(frame.names))
    IN  /\ Len(frame.steps) <= Len(order)
        /\ \A k \in 1..Len(frame.steps) : frame.steps[k] = order[k]

LastStep(frame) == frame.steps[Len(frame.steps)].pc

NamesErrors == {"NamesNotFound", "ExcelFailed", "CannotRead"}

\* read_name_file fails on the names file of the invocation.
ReadFails(frame, err) ==
    \E guess \in Detect(NamesFileAt(frame.csv_path).bytes) :
        ReadNameFile(NamesFileAt(frame.csv_path), guess).err = err

\* C6: every invocation takes its steps in the one order validate, read,
\* empty check, open, count check, the pages 0..n-1 (each written, then
\* shown), report, each step once; it returns from the first step that
\* fails, with the error of that step and no other: ValidationError for bad
\* entries whatever else is wrong, a names error when the names cannot be
\* read, EmptySource for an empty table even if the document is absent,
\* PdfNotFound for an absent document before any count is compared; and
\* only an invocation that has taken every step reports success.
C6_EarliestError ==
    /\ \A f \in RunningFrames : InOrder(f)
    /\ Returned =>
          LET f == last.frame
              at == LastStep(f)
          IN  /\ InOrder(f)
              /\ BadEntries(f) <=> last.outcome = "ValidationError"
              /\ last.outcome = "ValidationError" <=> at = "validate"
              /\ last.outcome \in NamesErrors <=> at = "read"
              /\ at = "read" => ReadFails(f, last.outcome)
              /\ (Took(f, "empty") /\ FrameEmpty(f.df))
                    <=> last.outcome = "EmptySource"
              /\ last.outcome = "EmptySource" <=> at = "empty"
              /\ (Took(f, "open") /\ ~PdfExists(f.pdf_path))
                    <=> last.outcome = "PdfNotFound"
              /\ last.outcome \in {"PdfNotFound", "PdfUnreadable"}
                    <=> at = "open"
              /\ last.outcome = "CountMismatch" <=> at = "count"
              /\ last.outcome \in {"OpenFailed", "WriteFailed"}
                    <=> at = "page"
              /\ last.outcome = "Done" <=> at = "report"
              /\ last.outcome = "Done"
                    <=> f.steps = StepOrder(Len(f.names))
              /\ last.dialog = IF last.outcome = "Done" THEN "showinfo"
                                                        ELSE "showerror"

\* A names file holding a header only, given with a document that is not
\* on disk, has been refused as empty: the document was never looked for.
C6_Witness ==
    /\ last.outcome = "EmptySource"
    /\ ~PdfExists(last.frame.pdf_path)
    /\ LastStep(last.frame) = "empty"
    /\ ~Took(last.frame, "open")

\* C9 as stated: in every invocation the k-th time the bar is shown it
\* stands at k of the page count of the document, k pages having been
\* written by the invocation; and the bar's maximum is that page count all
\* the time the invocation extracts.
C9_AsStated ==
    /\ \A f \in RunningFrames \cup {last.frame} :
          \A k \in 1..Len(f.events) :
             f.events[k] = [value |-> k,
                            maximum |-> Len(SourcePages(f)),
                            written |-> k]
    /\ (Running /\ Top.pc \in {"page", "progress", "update"}) =>
          progress.maximum = Len(SourcePages(Top))

\* The same of the invocations from whose root.update() no other one was
\* entered.
C9_Alone ==
    /\ \A f \in RunningFrames \cup {last.frame} :
          f.calm =>
             \A k \in 1..Len(f.events) :
                f.events[k] = [value |-> k,
                               maximum |-> Len(SourcePages(f)),
                               written |-> k]
    /\ (Running /\ Top.calm /\ Top.pc \in {"page", "progress", "update"})
          => progress.maximum = Len(SourcePages(Top))

\* The invocation returned because the page of index frame.i could not be
\* written.
WriteFailure == last.outcome \in {"OpenFailed", "WriteFailed"}

\* The file at path is the same in both states of the disk.
SameFile(d, e, path) == path \notin Changed(d, e)

\* C10 as stated: an invocation that fails to write page k returns at once:
\* it has written the pages before k and no other, has shown the bar k
\* times, and every file it had produced is after the failure as it was
\* before it.
C10_AsStated ==
    WriteFailure =>
        LET f == last.frame
        IN  /\ LastStep(f) = "page"
            /\ Len(f.wrote) = f.i
            /\ \A k \in 1..Len(f.wrote) : f.wrote[k].i = k - 1
            /\ Len(f.events) = f.i
            /\ \A p \in PathsWritten(f) : SameFile(last.at, last.after, p)

\* C10: an invocation that fails to write page k returns at once: it has
\* written the pages before k and no other, has shown the bar k times, and
\* has removed nothing; every file but the one of page k is after the
\* failure as it was before it.  The file of page k is untouched if it
\* could not be opened and is left cut short if the writing failed: this
\* file is an earlier output of the invocation when the name of page k is
\* cleaned to the base name of an earlier page.
C10_AbortKeepsOthers ==
    WriteFailure =>
        LET f == last.frame
            target == OutputPath(f, f.i)
        IN  /\ LastStep(f) = "page"
            /\ Len(f.wrote) = f.i
            /\ \A k \in 1..Len(f.wrote) : f.wrote[k].i = k - 1
            /\ Len(f.events) = f.i
            /\ Changed(last.at, last.after) \subseteq {target}
            /\ \A p \in PathsWritten(f) :
                  \E e \in last.after : e.path = p
            /\ last.outcome = "OpenFailed" => last.after = last.at
            /\ last.outcome = "WriteFailed" =>
                  Holds(last.after, target, Truncated)

\* The writing of the third page has failed: the files of the first two
\* pages are as they were, the third is cut short.
C10_Witness ==
    /\ last.outcome = "WriteFailed"
    /\ last.frame.i = 2
    /\ Cardinality(PathsWritten(last.frame)) = 2
    /\ OutputPath(last.frame, 2) \notin PathsWritten(last.frame)
    /\ \A k \in 1..2 :
          Holds(last.after, last.frame.wrote[k].path,
                OnePage(last.frame.wrote[k].page))
    /\ Holds(last.after, OutputPath(last.frame, 2), Truncated)

\* The invocation is in the loop of split_pdf.
Extracting(frame) == frame.pc \in {"page", "progress", "update"}

\* C11 as stated: every invocation writes its pages in the order of their
\* indices, one at a time; at most one invocation is in the loop of
\* split_pdf; and while an invocation is in it, between two of its writes,
\* no other invocation is entered that comes to extract and no other one
\* writes a file.
C11_AsStated ==
    /\ \A f \in RunningFrames \cup {last.frame} :
          /\ \A k \in 1..Len(f.wrote) : f.wrote[k].i = k - 1
          /\ f.foreign = {}
    /\ Cardinality({k \in 1..Len(stack) : Extracting(stack[k])}) <= 1

\* The part of it that one invocation decides alone: its own pages are
\* written in the order of their indices, each once.
C11_OwnOrder ==
    \A f \in RunningFrames \cup {last.frame} :
        /\ \A k \in 1..Len(f.wrote) : f.wrote[k].i = k - 1
        /\ InOrder(f)

\* C12 as stated: the message of every invocation that completes, with n
\* names, n >= 1, gives n, the first name and the last name, which for
\* n = 1 is the first.
C12_AsStated ==
    (last.outcome = "Done" /\ Len(last.frame.names) >= 1) =>
        LET names == last.frame.names
        IN  /\ last.dialog = "showinfo"
            /\ last.report = <<Decimal(Len(names)), names[1],
                               names[Len(names)]>>

\* The same of the invocations with two names or more.
C12_TwoOrMore ==
    (last.outcome = "Done" /\ Len(last.frame.names) >= 2) =>
        LET names == last.frame.names
        IN  /\ last.dialog = "showinfo"
            /\ last.report = <<Decimal(Len(names)), names[1],
                               names[Len(names)]>>

(***************************************************************************)
(* Properties of the loop over the encodings (ReadSpec).                   *)
(***************************************************************************)
\* A delimited-text names file that exists has been read.
RdCsvRead ==
    /\ rd_out.done
    /\ rd_in.file.exists
    /\ Len(rd_in.file.path) >= 4
    /\ Lower(SubSeq(rd_in.file.path, Len(rd_in.file.path) - 3,
                    Len(rd_in.file.path))) = <<46, 99, 115, 118>>

\* encodings_to_try for the file read.
RdChain == <<rd_in.guess>> \o FallbackEncodings

\* The attempts made: each is the next entry of the list, every attempt
\* but the last met a decoding error, and the last one decided: a table if
\* it decoded and parsed, the final error if it decoded and did not parse.
RdLoopInOrder ==
    LET t == rd_out.res.tried
        n == Len(t)
        d == Decode(t[n], rd_in.file.bytes)
        p == ParseCsv(d.text)
    IN  /\ n >= 1
        /\ n <= Len(RdChain)
        /\ \A k \in 1..n : t[k] = RdChain[k]
        /\ \A k \in 1..(n - 1) : ~Decode(t[k], rd_in.file.bytes).ok
        /\ d.ok
        /\ rd_out.res.err \in {"", "CannotRead"}
        /\ rd_out.res.err = "" <=> p.err = ""
        /\ rd_out.res.err = "" =>
              rd_out.res.used = t[n] /\ rd_out.res.df = p.df
        /\ rd_out.res.err = "CannotRead" =>
              rd_out.res.used = "" /\ rd_out.res.df = NoFrame

PathCharacters == {47, 92, 46, 58}

\* path is folder/<base>.pdf for a base that is not empty and holds no
\* path character.
ConfinedTo(path, folder) ==
    LET from == Len(folder) + 2
        to == Len(path) - Len(PdfSuffix)
    IN  /\ to >= from
        /\ SubSeq(path, 1, Len(folder)) = folder
        /\ path[Len(folder) + 1] = 47
        /\ SubSeq(path, to + 1, Len(path)) = PdfSuffix
        /\ \A k \in from..to : path[k] \notin PathCharacters

\* The files an invocation has written or cut short.
Touched(frame) ==
    PathsWritten(frame)
        \cup (IF frame = last.frame THEN Changed(last.at, last.after) ELSE {})

\* C14 as stated: every file an invocation writes is outputDir/<base>.pdf
\* with no path character in base, and it is neither the source document
\* nor the names file of the invocation.
C14_AsStated ==
    \A f \in RunningFrames \cup {last.frame} :
        \A p \in Touched(f) :
            /\ ConfinedTo(p, f.output_folder)
            /\ p # f.pdf_path
            /\ p # f.csv_path

\* The part of it that holds: every file an invocation writes is
\* outputDir/<base>.pdf with no path character in base, and it is not the
\* names file.
C14_Confined ==
    \A f \in RunningFrames \cup {last.frame} :
        \A p \in Touched(f) :
            /\ ConfinedTo(p, f.output_folder)
            /\ p # f.csv_path

====
